---- MODULE Spec2Model ----
(***************************************************************************)
(* Model of mrp7pred/feats/_correlation_graph.py: the Node class and the   *)
(* CorrelationGraph class (construction from a correlation matrix, the two *)
(* removal rounds R1 and R2, and the prune loop).                          *)
(*                                                                         *)
(* Node objects have no __eq__/__hash__, so Python compares and hashes     *)
(* them by identity.  The model keeps a heap of Node objects: object id k  *)
(* is the k-th Node created; value[k] is its .value and edge[k] its .edge  *)
(* dictionary (a function from neighbour ids to weights).  Dictionary      *)
(* iteration order is insertion order; __init__ inserts keys in increasing *)
(* id order, so the first key of a dictionary is its least id.             *)
(*                                                                         *)
(* Correlations are on an integer scale 0..MaxWeight (MaxWeight is 1.0,    *)
(* the unit diagonal); sums and comparisons are those of the code.         *)
(*                                                                         *)
(* The module is modelled as loaded with annotations evaluated lazily (the *)
(* annotation `node: Node` inside class Node is not evaluated on load).    *)
(***************************************************************************)
EXTENDS Integers, Sequences, FiniteSets, TLC

\* Largest number of rows/columns of the input matrix.
MaxN == 3

\* Resolution of the correlation scale: entries and thresholds are 0..MaxWeight.
MaxWeight == 2

\* to_drop grows without bound while the prune loop runs; the model records
\* its first MaxDrop entries.
MaxDrop == 3

\* Number of Node objects a client of the Node class holds (NodeSpec).
NodeCount == 2

VARIABLES
    pc,           \* position of the caller: new, built, test, r1, r2, done, or an exception name
    shape,        \* corr_matrix.shape
    corr_matrix,  \* corr_matrix.iloc
    threshold,    \* threshold
    value,        \* heap: Node.value of every Node created, by object id
    edge,         \* heap: Node.edge of every Node created, by object id
    nodes,        \* CorrelationGraph.nodes (list of object ids)
    to_drop,      \* CorrelationGraph.to_drop
    num_edges,    \* CorrelationGraph.num_edges
    cycle_edges,  \* num_edges as read by the last `while` test of prune
    res           \* outcome of the last Node.link / Node.unlink call (NodeSpec)

vars == <<pc, shape, corr_matrix, threshold, value, edge, nodes, to_drop,
          num_edges, cycle_edges, res>>

----------------------------------------------------------------------------
(* Dictionaries and lists *)

EmptyDict == [k \in {} |-> 0]

\* d[k] = v
DictSet(d, k, v) == [x \in (DOMAIN d) \cup {k} |-> IF x = k THEN v ELSE d[x]]

\* del d[k]  (k is a key of d)
DictDel(d, k) == [x \in (DOMAIN d) \ {k} |-> d[x]]

Range(s) == {s[i] : i \in 1..Len(s)}

\* list.remove(x): removes the first occurrence
ListRemove(s, x) ==
    LET first == CHOOSE i \in 1..Len(s) : s[i] = x /\ \A j \in 1..(i-1) : s[j] # x
    IN  [i \in 1..(Len(s) - 1) |-> IF i < first THEN s[i] ELSE s[i + 1]]

RECURSIVE SumOver(_, _)
SumOver(d, keys) ==
    IF keys = {} THEN 0
    ELSE LET k == CHOOSE x \in keys : TRUE
         IN  d[k] + SumOver(d, keys \ {k})

Min(S) == CHOOSE x \in S : \A y \in S : x <= y

----------------------------------------------------------------------------
(* class Node *)

\* Node.value of an object; id 0 stands for the placeholder Node(-1) of R2.
NodeValue(val, id) == IF id = 0 THEN -1 ELSE val[id]

\* Node.link: self.edge[node] = pcc
Link(e, self, node, pcc) == [e EXCEPT ![self] = DictSet(@, node, pcc)]

\* `not self.edge.get(node)`: the key is absent (None) or its weight is 0.0
NotGet(d, k) == k \notin DOMAIN d \/ d[k] = 0

\* Node.unlink: the exception raised ("none" when it returns) and the heap left.
Unlink(e, self, node) ==
    IF NotGet(e[self], node)
    THEN [err |-> "ValueError", edge |-> e]
    ELSE IF self \notin DOMAIN e[node]
    THEN [err |-> "KeyError", edge |-> e]              \* del node.edge[self]
    ELSE LET e1 == [e EXCEPT ![node] = DictDel(@, self)]
         IN  IF node \notin DOMAIN e1[self]
             THEN [err |-> "KeyError", edge |-> e1]    \* del self.edge[node]
             ELSE [err |-> "none",
                   edge |-> [e1 EXCEPT ![self] = DictDel(@, node)]]

\* Node.has_leaf_child
HasLeafChild(e, self) ==
    \E neighbor \in DOMAIN e[self] : Cardinality(DOMAIN e[neighbor]) = 1

\* Node.get_overall_weight, sum(node.edge.values())
OverallWeight(e, self) == SumOver(e[self], DOMAIN e[self])

----------------------------------------------------------------------------
(* CorrelationGraph.__init__ *)

\* corr >= threshold
Qualifies_strict(corr, t) == corr > t
Qualifies(corr, t) == corr >= t

\* self.num_edges += 1
CountEdge_perEndpoint(n) == n + 2
CountEdge(n) == n + 1

\* Node(v): a fresh object with an empty edge dictionary
NewNode(g, v) ==
    [g EXCEPT !.value = Append(@, v), !.edge = Append(@, EmptyDict)]

\* if node not in self.nodes: self.nodes.append(node)   (identity comparison)
AppendIfAbsent(g, id) ==
    IF id \notin Range(g.nodes) THEN [g EXCEPT !.nodes = Append(@, id)] ELSE g

\* the inner loop: for col in range(row + 1, n)
RECURSIVE ColLoop(_, _, _, _, _, _, _)
ColLoop(g, node, row, col, n, m, t) ==
    IF col >= n THEN g
    ELSE LET corr == m[row][col] IN
         IF Qualifies(corr, t)
         THEN LET g1 == NewNode(g, col)
                  node_new == Len(g1.value)
                  g2 == [g1 EXCEPT !.edge = Link(@, node, node_new, corr),
                                   !.num_edges = CountEdge(@)]
                  g3 == AppendIfAbsent(g2, node_new)
              IN  ColLoop(g3, node, row, col + 1, n, m, t)
         ELSE ColLoop(g, node, row, col + 1, n, m, t)

\* the outer loop: for row in range(n)
RECURSIVE RowLoop(_, _, _, _, _)
RowLoop(g, row, n, m, t) ==
    IF row >= n THEN g
    ELSE LET g1 == NewNode(g, row)
             node == Len(g1.value)
             g2 == AppendIfAbsent(g1, node)
         IN  RowLoop(ColLoop(g2, node, row, row + 1, n, m, t), row + 1, n, m, t)

EmptyGraph == [value |-> <<>>, edge |-> <<>>, nodes |-> <<>>, num_edges |-> 0]

BuildGraph(n, m, t) == RowLoop(EmptyGraph, 0, n, m, t)

----------------------------------------------------------------------------
(* CorrelationGraph._remove_nodes_with_leaf_child (R1) *)

\* self.to_drop.append(v), recorded up to MaxDrop entries
AppendDrop(drop, v) == IF Len(drop) < MaxDrop THEN Append(drop, v) ELSE drop

\* for neighbor in node.edge.keys(): neighbor.unlink(node); self.num_edges -= 1
\* The first unlink either raises, or deletes a key of node.edge, the
\* dictionary being iterated, and the iterator's next step raises RuntimeError.
UnlinkNeighbors(s, node) ==
    LET neighbor == Min(DOMAIN s.edge[node])
        r == Unlink(s.edge, neighbor, node)
    IN  IF r.err # "none"
        THEN [s EXCEPT !.edge = r.edge, !.err = r.err]
        ELSE [s EXCEPT !.edge = r.edge, !.num_edges = @ - 1,
                       !.err = "RuntimeError"]

\* for node in self.nodes: the list iterator keeps an index i into the live
\* list, so a removal at the current position skips the element after it.
RECURSIVE R1Loop(_, _)
R1Loop(s, i) ==
    IF i > Len(s.nodes) THEN s
    ELSE LET node == s.nodes[i] IN
         IF Cardinality(DOMAIN s.edge[node]) = 0
         THEN R1Loop([s EXCEPT !.nodes = ListRemove(@, node)], i + 1)
         ELSE IF HasLeafChild(s.edge, node)
         THEN LET s1 == [s EXCEPT !.to_drop = AppendDrop(@, NodeValue(value, node))]
                  s2 == UnlinkNeighbors(s1, node)
              IN  IF s2.err # "none" THEN s2
                  ELSE R1Loop([s2 EXCEPT !.nodes = ListRemove(@, node)], i + 1)
         ELSE R1Loop(s, i + 1)

----------------------------------------------------------------------------
(* CorrelationGraph._remove_nodes_in_cycles (R2) *)

\* if sum(node.edge.values()) > max_weight
Heavier(sum_weight, max_weight) == sum_weight > max_weight

\* The scan; at its end the value of max_weight_node is appended to to_drop.
RECURSIVE R2Loop(_, _, _, _)
R2Loop(s, i, max_weight, max_weight_node) ==
    IF i > Len(s.nodes)
    THEN [s EXCEPT !.to_drop = AppendDrop(@, NodeValue(value, max_weight_node))]
    ELSE LET node == s.nodes[i] IN
         IF Cardinality(DOMAIN s.edge[node]) = 0
         THEN R2Loop([s EXCEPT !.nodes = ListRemove(@, node)], i + 1,
                     max_weight, max_weight_node)
         ELSE LET sum_weight == OverallWeight(s.edge, node) IN
              IF Heavier(sum_weight, max_weight)
              THEN R2Loop(s, i + 1, sum_weight, node)
              ELSE R2Loop(s, i + 1, max_weight, max_weight_node)

----------------------------------------------------------------------------
(* The program: construct a graph from a matrix, then prune it *)

Weights == 0..MaxWeight

Indices(n) == 0..(n - 1)

UpperPairs(n) == {p \in Indices(n) \X Indices(n) : p[1] < p[2]}

\* A symmetric matrix with unit diagonal, from its upper triangle.
Symmetric(n, up) ==
    [i \in Indices(n) |-> [j \in Indices(n) |->
        IF i = j THEN MaxWeight
        ELSE IF i < j THEN up[<<i, j>>] ELSE up[<<j, i>>]]]

\* A matrix that is not square: its entries are never read.
Filled(rows, cols) == [i \in Indices(rows) |-> [j \in Indices(cols) |-> 0]]

GraphState == [nodes |-> nodes, edge |-> edge, to_drop |-> to_drop,
               num_edges |-> num_edges, err |-> "none"]

Init ==
    /\ pc = "new"
    /\ shape \in (0..MaxN) \X (0..MaxN)
    /\ IF shape[1] = shape[2]
       THEN \E up \in [UpperPairs(shape[1]) -> Weights] :
                corr_matrix = Symmetric(shape[1], up)
       ELSE corr_matrix = Filled(shape[1], shape[2])
    /\ threshold \in Weights
    /\ value = <<>>
    /\ edge = <<>>
    /\ nodes = <<>>
    /\ to_drop = <<>>
    /\ num_edges = 0
    /\ cycle_edges = 0
    /\ res = "none"

\* CorrelationGraph(corr_matrix, threshold)
Construct ==
    /\ pc = "new"
    /\ IF shape[1] # shape[2]
       THEN /\ pc' = "ShapeError"
            /\ UNCHANGED <<value, edge, nodes, num_edges>>
       ELSE LET g == BuildGraph(shape[1], corr_matrix, threshold) IN
            /\ pc' = "built"
            /\ value' = g.value
            /\ edge' = g.edge
            /\ nodes' = g.nodes
            /\ num_edges' = g.num_edges
    /\ UNCHANGED <<shape, corr_matrix, threshold, to_drop, cycle_edges, res>>

\* prune: while self.num_edges != 0
PruneTest ==
    /\ pc \in {"built", "test"}
    /\ pc' = IF num_edges # 0 THEN "r1" ELSE "done"
    /\ cycle_edges' = num_edges
    /\ UNCHANGED <<shape, corr_matrix, threshold, value, edge, nodes, to_drop,
                   num_edges, res>>

\* prune: self._remove_nodes_with_leaf_child()
RemoveNodesWithLeafChild ==
    /\ pc = "r1"
    /\ LET s == R1Loop(GraphState, 1) IN
       /\ pc' = IF s.err = "none" THEN "r2" ELSE s.err
       /\ nodes' = s.nodes
       /\ edge' = s.edge
       /\ to_drop' = s.to_drop
       /\ num_edges' = s.num_edges
    /\ UNCHANGED <<shape, corr_matrix, threshold, value, cycle_edges, res>>

\* prune: self._remove_nodes_in_cycles()
RemoveNodesInCycles ==
    /\ pc = "r2"
    /\ LET s == R2Loop(GraphState, 1, 0, 0) IN
       /\ pc' = "test"
       /\ nodes' = s.nodes
       /\ edge' = s.edge
       /\ to_drop' = s.to_drop
       /\ num_edges' = s.num_edges
    /\ UNCHANGED <<shape, corr_matrix, threshold, value, cycle_edges, res>>

Next ==
    \/ Construct
    \/ PruneTest
    \/ RemoveNodesWithLeafChild
    \/ RemoveNodesInCycles

Spec == Init /\ [][Next]_vars

\* prune is sequential code: whatever step is next is eventually taken.
FairSpec == Init /\ [][Next]_vars /\ WF_vars(Next)

----------------------------------------------------------------------------
(* The Node class used on its own: a client holding NodeCount nodes calls   *)
(* link and unlink on any of them, in any order.                            *)

NodeIds == 1..NodeCount

NodeInit ==
    /\ pc = "node"
    /\ shape = <<0, 0>>
    /\ corr_matrix = Filled(0, 0)
    /\ threshold = 0
    /\ value = [i \in NodeIds |-> i - 1]
    /\ edge = [i \in NodeIds |-> EmptyDict]
    /\ nodes = <<>>
    /\ to_drop = <<>>
    /\ num_edges = 0
    /\ cycle_edges = 0
    /\ res = "none"

\* self.link(node, pcc)
NodeLink(self, node, pcc) ==
    /\ pc = "node"
    /\ edge' = Link(edge, self, node, pcc)
    /\ res' = "none"
    /\ UNCHANGED <<pc, shape, corr_matrix, threshold, value, nodes, to_drop,
                   num_edges, cycle_edges>>

\* self.unlink(node)
NodeUnlink(self, node) ==
    /\ pc = "node"
    /\ LET r == Unlink(edge, self, node) IN
       /\ edge' = r.edge
       /\ res' = r.err
    /\ UNCHANGED <<pc, shape, corr_matrix, threshold, value, nodes, to_drop,
                   num_edges, cycle_edges>>

NodeNext ==
    \E self \in NodeIds, node \in NodeIds :
        \/ \E pcc \in Weights : NodeLink(self, node, pcc)
        \/ NodeUnlink(self, node)

NodeSpec == NodeInit /\ [][NodeNext]_vars

----------------------------------------------------------------------------
(* Properties *)

\* The graph has been constructed.
Constructed == pc \notin {"new", "ShapeError", "node"}

\* Object ids of the nodes in the active list.
Active == Range(nodes)

\* Two node objects are adjacent when either lists the other as a neighbour.
Adjacent(a, b) == b \in DOMAIN edge[a] \/ a \in DOMAIN edge[b]

\* The undirected edges among active nodes, each once.
ActiveEdges == {p \in Active \X Active : p[1] < p[2] /\ Adjacent(p[1], p[2])}

\* Pairs i < j of the matrix at or above the threshold.
QualifyingPairs ==
    {p \in UpperPairs(shape[1]) : corr_matrix[p[1]][p[2]] >= threshold}

\* All original feature indices minus the values in to_drop.
Retained == Indices(shape[1]) \ Range(to_drop)

\* C1: from every constructed graph prune terminates, and on completion
\* num_edges is 0 and no two active nodes are adjacent.
C1_PruneTerminates ==
    (pc = "built") ~> (pc = "done" /\ num_edges = 0 /\ ActiveEdges = {})

\* C2: once prune has completed, no two retained feature indices i < j have
\* matrix[i][j] >= threshold.
C2_RetainedIndependent ==
    pc = "done" =>
        \A i \in Retained, j \in Retained :
            i < j => ~(corr_matrix[i][j] >= threshold)

\* C2 witness: prune has completed on a matrix of at least three features,
\* some pair of which is correlated.
C2_Witness ==
    /\ pc = "done"
    /\ shape[1] >= 3
    /\ \E p \in UpperPairs(shape[1]) : corr_matrix[p[1]][p[2]] > 0

\* C3: to_drop never holds a value twice, and every value in it is a feature
\* index 0..n-1 (never the placeholder -1).
C3_DropListSound ==
    /\ \A k \in 1..Len(to_drop), l \in 1..Len(to_drop) :
           k # l => to_drop[k] # to_drop[l]
    /\ \A k \in 1..Len(to_drop) : to_drop[k] \in Indices(shape[1])

\* C4: right after construction num_edges is the number of pairs i < j with
\* matrix[i][j] >= threshold.
C4_EdgeCountAtBuild ==
    pc = "built" => num_edges = Cardinality(QualifyingPairs)

\* C4 witness: a constructed graph where some pairs qualify and some do not.
C4_Witness ==
    /\ pc = "built"
    /\ num_edges >= 2
    /\ Cardinality(QualifyingPairs) < Cardinality(UpperPairs(shape[1]))

\* C5: right after construction every feature index 0..n-1 is the value of
\* exactly one node of the node list.
C5_NodesCoverOnce ==
    pc = "built" =>
        \A v \in Indices(shape[1]) :
            Cardinality({k \in 1..Len(nodes) : value[nodes[k]] = v}) = 1

\* C6: whenever a node lists another as a neighbour with weight w, the other
\* lists it back with the same weight.
C6_MutualAdjacency ==
    Constructed =>
        \A a \in DOMAIN edge : \A b \in DOMAIN edge[a] :
            a \in DOMAIN edge[b] /\ edge[b][a] = edge[a][b]

\* C7: after construction and after every R1 and R2 pass, num_edges is the
\* number of undirected edges among active nodes; in particular it is 0
\* exactly when no two active nodes are adjacent.
C7_EdgeCountMatches ==
    pc \in {"built", "r2", "test", "done"} =>
        /\ num_edges = Cardinality(ActiveEdges)
        /\ (num_edges = 0 <=> ActiveEdges = {})

\* C8: a cycle of the prune loop (R1 then R2) that started with num_edges > 0
\* ends with fewer edges, and R2 removes an edge whenever num_edges > 0.
C8_CycleDecreases ==
    [][(pc = "r2" /\ pc' = "test") =>
          /\ (cycle_edges > 0 => num_edges' < cycle_edges)
          /\ (num_edges > 0 => num_edges' < num_edges)]_vars

\* The active node of greatest total weight, ties to the lowest feature index.
MaxWeightNode ==
    CHOOSE x \in Active : \A y \in Active :
        \/ OverallWeight(edge, x) > OverallWeight(edge, y)
        \/ /\ OverallWeight(edge, x) = OverallWeight(edge, y)
           /\ \/ value[x] < value[y]
              \/ value[x] = value[y] /\ x <= y

\* C9: R2 on a graph with num_edges > 0 appends the value of the active node
\* of greatest total weight to to_drop, removes each of its edges from both
\* endpoints, decrements num_edges once per edge, and removes it from the
\* active list.
C9_RoundTwoRemovesMax ==
    [][(pc = "r2" /\ pc' = "test" /\ num_edges > 0 /\ Len(to_drop) < MaxDrop) =>
          LET sel == MaxWeightNode IN
          /\ to_drop' = Append(to_drop, value[sel])
          /\ DOMAIN edge'[sel] = {}
          /\ \A a \in DOMAIN edge' : sel \notin DOMAIN edge'[a]
          /\ num_edges' = num_edges - Cardinality(DOMAIN edge[sel])
          /\ sel \notin Range(nodes')]_vars

\* C10: unlink raises the adjacency error exactly when the other node is not
\* a neighbour, leaving the dictionaries as they were; when it is a neighbour,
\* whatever the weight, unlink returns and neither node lists the other.
C10_UnlinkContract ==
    [][\A self \in NodeIds, node \in NodeIds :
          (self # node /\ NodeUnlink(self, node)) =>
              IF node \notin DOMAIN edge[self]
              THEN res' = "ValueError" /\ edge' = edge
              ELSE /\ res' = "none"
                   /\ node \notin DOMAIN edge'[self]
                   /\ self \notin DOMAIN edge'[node]]_vars

====
